---- MODULE Spec2Model ----
(***************************************************************************)
(* Model of the query-rag edge function                                    *)
(* (supabase/functions/query-rag/index.ts) and of the stored procedure     *)
(* match_document_chunks it calls.                                         *)
(*                                                                         *)
(* Similarities are integers in hundredths (0.3 is 30, 0.81 is 81).        *)
(* Strings built by template literals are modelled as tuples of their      *)
(* parts (`Page ${n}` is <<"Page", n>>), file types as sequences of        *)
(* one-character strings so that capitalisation is computed.               *)
(***************************************************************************)
EXTENDS Integers, Sequences, FiniteSets, TLC

VARIABLES
    documents,      \* table documents: id -> row
    req,            \* the HTTP request being served
    pc,             \* position of the handler
    calls,          \* outbound calls made so far, in order, with their outcome
    queryEmbedding, \* result of generateEmbedding
    rpcArgs,        \* arguments passed to match_document_chunks
    chunks,         \* data of the rpc result
    searchError,    \* error of the rpc result
    context,        \* context block handed to generateAnswer
    responses,      \* responses returned by the handler
    caller,         \* role or user on whose behalf the store is queried
    fragment,       \* input of the citation builder taken alone
    citation,       \* its output
    files,          \* DocumentUpload: the list of the component's state
    selection,      \* DocumentUpload: the runs of handleFileSelect
    completeCalls,  \* DocumentUpload: calls of onUploadComplete, per run
    storage         \* bucket 'documents': the objects uploaded

vars == <<documents, req, pc, calls, queryEmbedding, rpcArgs, chunks,
          searchError, context, responses, caller, fragment, citation,
          files, selection, completeCalls, storage>>

\* the upload component's part of the state
uploadVars == <<files, selection, completeCalls, storage>>

----------------------------------------------------------------------------
(* Bounds *)

NumChunks == 8

----------------------------------------------------------------------------
(* Program constants *)

VectorDim == 384
WrongDim == 768
MatchThreshold == 30
MatchCount == 10

\* the arguments a direct caller of match_document_chunks tries
MaxDirectCount == 3

FallbackAnswer == "I could not find any relevant information in your documents to answer this question. Please ensure you have uploaded documents related to this topic."

corsHeaders ==
    [ allowOrigin  |-> "*",
      allowMethods |-> "GET, POST, PUT, DELETE, OPTIONS",
      allowHeaders |-> "Content-Type, Authorization, X-Client-Info, Apikey",
      contentType  |-> "" ]

jsonHeaders == [corsHeaders EXCEPT !.contentType = "application/json"]

----------------------------------------------------------------------------
(* JavaScript values *)

Undefined == [def |-> FALSE, val |-> 0]

Num(n) == [def |-> TRUE, val |-> n]

\* truthiness of a number-or-undefined value: undefined and 0 are falsy
TruthyNum(v) == v.def /\ v.val # 0

\* truthiness of a string-or-undefined field of the request body
TruthyField(fields, k) == k \in DOMAIN fields /\ fields[k] # ""

\* the value of a field of the request body, undefined when the key is absent
FieldGet(fields, k) ==
    IF k \in DOMAIN fields
    THEN [def |-> TRUE, val |-> fields[k]]
    ELSE [def |-> FALSE, val |-> ""]

----------------------------------------------------------------------------
(* The store *)

Users == {"u1", "u2"}

DocIds == <<"d1", "d2", "d3">>

Statuses == {"pending", "processing", "completed", "failed"}

FileTypes == {<<"p","d","f">>, <<"d","o","c","x">>, <<"t","x","t">>,
              <<"i","m","a","g","e">>, <<"a","u","d","i","o">>}

DocFilename(d) ==
    CASE d = "d1" -> "policy.pdf"
      [] d = "d2" -> "call.mp3"
      [] OTHER    -> "scan.png"

DocFileType(d) ==
    CASE d = "d1" -> <<"p","d","f">>
      [] d = "d2" -> <<"a","u","d","i","o">>
      [] OTHER    -> <<"i","m","a","g","e">>

\* the states of table documents the model starts from
DocumentTables ==
    { [d \in {"d1", "d2", "d3"} |->
          [ id |-> d, filename |-> DocFilename(d), file_type |-> DocFileType(d),
            uploaded_by |-> own[d],
            processing_status |-> IF d = "d3" THEN st ELSE "completed" ] ]
      : own \in [{"d1", "d2", "d3"} -> Users], st \in Statuses }

NoMeta == [k \in {} |-> 0]

\* chunk_metadata is jsonb: SQL NULL, or an object with optional keys
ChunkMetadata(i) ==
    LET p == ((i - 1) % 8) + 1 IN
    CASE p = 1 -> [null |-> FALSE, obj |-> ("page_number" :> 4)]
      [] p = 2 -> [null |-> FALSE, obj |-> ("timestamp" :> 0)]
      [] p = 3 -> [null |-> TRUE,  obj |-> NoMeta]
      [] p = 4 -> [null |-> FALSE, obj |-> ("page_number" :> 0 @@ "timestamp" :> 12)]
      [] p = 5 -> [null |-> FALSE, obj |-> NoMeta]
      [] p = 6 -> [null |-> FALSE, obj |-> ("page_number" :> 3 @@ "timestamp" :> 7)]
      [] p = 7 -> [null |-> FALSE, obj |-> ("timestamp" :> 9)]
      [] OTHER -> [null |-> FALSE, obj |-> ("page_number" :> 1)]

\* embedding is nullable
ChunkHasEmbedding(i) == (i % 8) # 0

\* table document_chunks, in store order
document_chunks ==
    [ i \in 1..NumChunks |->
        [ id |-> i,
          document_id |-> DocIds[((i - 1) % 3) + 1],
          chunk_text |-> <<"text", i>>,
          chunk_index |-> (i - 1) \div 3,
          embedding_null |-> ~ChunkHasEmbedding(i),
          chunk_metadata |-> ChunkMetadata(i) ] ]

QueryVectors == {"qa", "qb"}

\* 1 - (dc.embedding <=> query_embedding), in hundredths
Similarity(i, qv) ==
    LET p == ((i - 1) % 8) + 1 IN
    IF qv = "qa"
    THEN CASE p = 1 -> 81
           [] p = 2 -> 81
           [] p = 3 -> 55
           [] p = 4 -> 60
           [] p = 5 -> 45
           [] p = 6 -> 70
           [] p = 7 -> 30
           [] OTHER -> 90
    ELSE (i * 7) % 31

----------------------------------------------------------------------------
(* match_document_chunks *)

NullFilter == [null |-> TRUE, val |-> ""]

UserFilter(u) == [null |-> FALSE, val |-> u]

\* Eligible without the owner condition
EligibleAnyOwner(i, qv, match_threshold, user_id_filter, docs) ==
    LET dc == document_chunks[i]
        d  == docs[dc.document_id]
    IN  /\ ~dc.embedding_null
        /\ Similarity(i, qv) > match_threshold
        /\ d.processing_status = "completed"

\* Eligible with >= in place of > on the threshold
EligibleAtThreshold(i, qv, match_threshold, user_id_filter, docs) ==
    LET dc == document_chunks[i]
        d  == docs[dc.document_id]
    IN  /\ (user_id_filter.null \/ d.uploaded_by = user_id_filter.val)
        /\ ~dc.embedding_null
        /\ Similarity(i, qv) >= match_threshold
        /\ d.processing_status = "completed"

\* Eligible without the condition on processing_status
EligibleAnyStatus(i, qv, match_threshold, user_id_filter, docs) ==
    LET dc == document_chunks[i]
        d  == docs[dc.document_id]
    IN  /\ (user_id_filter.null \/ d.uploaded_by = user_id_filter.val)
        /\ ~dc.embedding_null
        /\ Similarity(i, qv) > match_threshold

\* the WHERE clause, for the chunk with id i joined with its document
Eligible(i, qv, match_threshold, user_id_filter, docs) ==
    LET dc == document_chunks[i]
        d  == docs[dc.document_id]
    IN  /\ (user_id_filter.null \/ d.uploaded_by = user_id_filter.val)
        /\ ~dc.embedding_null
        /\ Similarity(i, qv) > match_threshold
        /\ d.processing_status = "completed"

\* the SELECT list
ResultRow(i, qv, docs) ==
    LET dc == document_chunks[i]
        d  == docs[dc.document_id]
    IN  [ id |-> dc.id,
          document_id |-> dc.document_id,
          chunk_text |-> dc.chunk_text,
          chunk_index |-> dc.chunk_index,
          chunk_metadata |-> dc.chunk_metadata,
          filename |-> d.filename,
          file_type |-> d.file_type,
          similarity |-> Similarity(i, qv) ]

\* Nearest taking the rows at the largest distance
Farthest(S, qv) == {i \in S : \A j \in S : Similarity(j, qv) >= Similarity(i, qv)}

\* rows of S at the smallest distance
Nearest(S, qv) == {i \in S : \A j \in S : Similarity(j, qv) <= Similarity(i, qv)}

\* ORDER BY distance LIMIT n: every order the sort may produce (rows at the
\* same distance come in an order SQL leaves unspecified)
RECURSIVE OrderByLimit(_, _, _)
OrderByLimit(S, qv, n) ==
    IF n <= 0 \/ S = {}
    THEN {<<>>}
    ELSE UNION { { <<i>> \o t : t \in OrderByLimit(S \ {i}, qv, n - 1) }
                 : i \in Nearest(S, qv) }

\* the possible results of one call, as sequences of rows
match_document_chunks(qv, match_threshold, match_count, user_id_filter, docs) ==
    LET E == {i \in DOMAIN document_chunks :
                 Eligible(i, qv, match_threshold, user_id_filter, docs)}
    IN  { [k \in DOMAIN s |-> ResultRow(s[k], qv, docs)]
          : s \in OrderByLimit(E, qv, match_count) }

----------------------------------------------------------------------------
(* generateEmbedding *)

UndefinedVec == [def |-> FALSE, dim |-> 0, vec |-> ""]

\* what the embedding endpoint may answer
EmbedResponses ==
    { [kind |-> k, dim |-> 0, vec |-> ""]
        : k \in {"fetch_rejects", "not_json", "no_embedding", "no_values"} }
    \cup { [kind |-> "values", dim |-> VectorDim, vec |-> v] : v \in QueryVectors }
    \cup { [kind |-> "values", dim |-> WrongDim, vec |-> "qa"] }

generateEmbedding(resp) ==
    CASE resp.kind \in {"fetch_rejects", "not_json"} ->
            [threw |-> TRUE, message |-> resp.kind, value |-> UndefinedVec]
      [] resp.kind = "no_embedding" ->
            \* data.embedding is undefined: reading .values throws
            [threw |-> TRUE, message |-> "TypeError", value |-> UndefinedVec]
      [] resp.kind = "no_values" ->
            [threw |-> FALSE, message |-> "", value |-> UndefinedVec]
      [] OTHER ->
            [threw |-> FALSE, message |-> "",
             value |-> [def |-> TRUE, dim |-> resp.dim, vec |-> resp.vec]]

----------------------------------------------------------------------------
(* generateAnswer *)

NoText == [def |-> FALSE, val |-> ""]

AnswerTexts == {"", "Refunds are accepted within 30 days.", "The context is insufficient."}

\* what the generation endpoint may answer
GenResponses ==
    { [kind |-> k, text |-> ""]
        : k \in {"fetch_rejects", "not_json", "no_candidates", "empty_candidates",
                 "no_content", "empty_parts", "no_text"} }
    \cup { [kind |-> "text", text |-> t] : t \in AnswerTexts }

generateAnswer(resp) ==
    CASE resp.kind \in {"fetch_rejects", "not_json"} ->
            [threw |-> TRUE, message |-> resp.kind, value |-> NoText]
      [] resp.kind \in {"no_candidates", "empty_candidates", "no_content",
                        "empty_parts"} ->
            \* a property of undefined is read on the way to .text
            [threw |-> TRUE, message |-> "TypeError", value |-> NoText]
      [] resp.kind = "no_text" ->
            [threw |-> FALSE, message |-> "", value |-> NoText]
      [] OTHER ->
            [threw |-> FALSE, message |-> "",
             value |-> [def |-> TRUE, val |-> resp.text]]

----------------------------------------------------------------------------
(* The handler's pure parts *)

LowerCase == <<"a","b","c","d","e","f","g","h","i","j","k","l","m",
               "n","o","p","q","r","s","t","u","v","w","x","y","z">>

UpperCase == <<"A","B","C","D","E","F","G","H","I","J","K","L","M",
               "N","O","P","Q","R","S","T","U","V","W","X","Y","Z">>

toUpperCase(c) ==
    IF \E k \in DOMAIN LowerCase : LowerCase[k] = c
    THEN UpperCase[CHOOSE k \in DOMAIN LowerCase : LowerCase[k] = c]
    ELSE c

\* Capitalize upper-casing every character
CapitalizeAll(ft) == [k \in DOMAIN ft |-> toUpperCase(ft[k])]

\* file_type.charAt(0).toUpperCase() + file_type.slice(1)
Capitalize(ft) == <<toUpperCase(Head(ft))>> \o Tail(ft)

\* chunk.chunk_metadata?.key
MetaGet(meta, key) ==
    IF meta.null \/ key \notin DOMAIN meta.obj
    THEN Undefined
    ELSE Num(meta.obj[key])

Reference(chunk) ==
    IF TruthyNum(MetaGet(chunk.chunk_metadata, "page_number"))
    THEN <<"Page", MetaGet(chunk.chunk_metadata, "page_number").val>>
    ELSE IF TruthyNum(MetaGet(chunk.chunk_metadata, "timestamp"))
         THEN <<"Timestamp", MetaGet(chunk.chunk_metadata, "timestamp").val>>
         ELSE <<"Chunk", chunk.chunk_index>>

Citation(chunk) ==
    [ source |-> chunk.filename,
      type |-> Capitalize(chunk.file_type),
      reference |-> Reference(chunk),
      document_id |-> chunk.document_id ]

\* Citations numbered from the end of the result
CitationsReversed(rows) == [k \in DOMAIN rows |-> Citation(rows[Len(rows) + 1 - k])]

Citations(rows) == [k \in DOMAIN rows |-> Citation(rows[k])]

\* one entry of the context block: `[${index + 1}] From ... (...):\n...\n`
ContextEntry(chunk, index) ==
    [ ordinal |-> index + 1,
      filename |-> chunk.filename,
      file_type |-> chunk.file_type,
      chunk_text |-> chunk.chunk_text ]

\* the entries in order; join('\n') only puts a separator between them
Context(rows) == [k \in DOMAIN rows |-> ContextEntry(rows[k], k - 1)]

RetrievedChunk(c) ==
    [chunk_id |-> c.id, document_id |-> c.document_id, score |-> c.similarity]

RetrievedChunks(rows) == [k \in DOMAIN rows |-> RetrievedChunk(rows[k])]

----------------------------------------------------------------------------
(* Responses.  keys is the set of keys of the JSON body (a key whose value *)
(* is undefined is dropped by JSON.stringify); a field outside keys holds  *)
(* a filler.                                                               *)

NoBody ==
    [ keys |-> {}, error |-> "", details |-> "", answer |-> "",
      citations |-> <<>>, retrieved_chunks |-> <<>> ]

ErrorBody(error) == [NoBody EXCEPT !.keys = {"error"}, !.error = error]

ErrorDetailsBody(error, details) ==
    [NoBody EXCEPT !.keys = {"error", "details"}, !.error = error,
                   !.details = details]

ResultBody(answer, citations, retrieved) ==
    [NoBody EXCEPT !.keys = (IF answer.def THEN {"answer"} ELSE {})
                            \cup {"citations", "retrieved_chunks"},
                   !.answer = answer.val,
                   !.citations = citations,
                   !.retrieved_chunks = retrieved]

Response(status, headers, hasBody, body) ==
    [status |-> status, headers |-> headers, hasBody |-> hasBody, body |-> body]

\* PreflightResponse without the CORS headers
PreflightResponseNoCors ==
    Response(200, [ allowOrigin |-> "", allowMethods |-> "", allowHeaders |-> "",
                    contentType |-> "" ], FALSE, NoBody)

PreflightResponse == Response(200, corsHeaders, FALSE, NoBody)

ValidationResponse ==
    Response(400, jsonHeaders, TRUE, ErrorBody("Query and user_id are required"))

SearchFailedResponse(err) ==
    Response(500, jsonHeaders, TRUE, ErrorDetailsBody("Search failed", err.code))

InternalErrorResponse(message) ==
    Response(500, jsonHeaders, TRUE,
             ErrorDetailsBody("Internal server error", message))

EmptyResultResponse ==
    Response(200, jsonHeaders, TRUE,
             ResultBody([def |-> TRUE, val |-> FallbackAnswer], <<>>, <<>>))

SuccessResponse(answer, rows) ==
    Response(200, jsonHeaders, TRUE,
             ResultBody(answer, Citations(rows), RetrievedChunks(rows)))

----------------------------------------------------------------------------
(* supabase.rpc('match_document_chunks', args) *)

NoError == [null |-> TRUE, code |-> ""]

Error(code) == [null |-> FALSE, code |-> code]

NullData == [null |-> TRUE, rows |-> <<>>]

Data(rows) == [null |-> FALSE, rows |-> rows]

NoArgs ==
    [ query_embedding |-> UndefinedVec, match_threshold |-> 0, match_count |-> 0,
      user_id_filter |-> [def |-> FALSE, val |-> ""] ]

\* a uuid parameter accepts only the text of a uuid
IsUuid(s) == s \in Users

\* a key whose value is undefined is left out of the request, and the
\* parameter takes its DEFAULT NULL
FilterParam(v) == IF v.def THEN UserFilter(v.val) ELSE NullFilter

\* vector(384) accepts only an array of 384 numbers
IsVector(v) == v.def /\ v.dim = VectorDim

\* the { data, error } pairs the awaited call may resolve to.  The client
\* resolves, never rejects: a request that cannot be completed resolves to
\* an error value
RpcOutcomes(args, docs) ==
    { [data |-> NullData, error |-> Error(c)] : c \in {"fetch_error", "db_error"} }
    \cup
    (IF ~IsVector(args.query_embedding)
     THEN { [data |-> NullData, error |-> Error("invalid_vector")] }
     ELSE IF args.user_id_filter.def /\ ~IsUuid(args.user_id_filter.val)
     THEN { [data |-> NullData, error |-> Error("invalid_uuid")] }
     ELSE { [data |-> Data(rows), error |-> NoError]
              : rows \in match_document_chunks(args.query_embedding.vec,
                                               args.match_threshold,
                                               args.match_count,
                                               FilterParam(args.user_id_filter),
                                               docs) }
          \cup { [data |-> NullData, error |-> NoError] })

----------------------------------------------------------------------------
(* Requests *)

QueryValues == {"", " ", "What is the refund policy?"}

UserIdValues == {"", "u1", "u2", "not-a-uuid"}

\* JSON objects with optional query and user_id
BodyFields ==
    { [k \in {} |-> ""] }
    \cup { ("query" :> q) : q \in QueryValues }
    \cup { ("user_id" :> u) : u \in UserIdValues }
    \cup { ("query" :> q @@ "user_id" :> u) : q \in QueryValues, u \in UserIdValues }

Requests ==
    { [method |-> "POST", bodyIsJson |-> TRUE, fields |-> f] : f \in BodyFields }
    \cup { [method |-> "POST", bodyIsJson |-> FALSE, fields |-> [k \in {} |-> ""]] }
    \cup { [method |-> "OPTIONS", bodyIsJson |-> FALSE, fields |-> [k \in {} |-> ""]] }

----------------------------------------------------------------------------
(* Deno.serve handler *)

Init ==
    /\ documents \in DocumentTables
    /\ req \in Requests
    /\ pc = "start"
    /\ calls = <<>>
    /\ queryEmbedding = UndefinedVec
    /\ rpcArgs = NoArgs
    /\ chunks = NullData
    /\ searchError = NoError
    /\ context = <<>>
    /\ responses = <<>>
    /\ caller = "service_role"
    /\ fragment = <<>>
    /\ citation = <<>>
    /\ files = <<>>
    /\ selection = <<>>
    /\ completeCalls = <<>>
    /\ storage = {}

\* an outbound call is sent
Called(op) == calls' = Append(calls, [op |-> op, result |-> "pending"])

\* the pending call settles: it returned a value, or it failed (the promise
\* rejected, or it resolved to an error value)
Settled(result) == calls' = [calls EXCEPT ![Len(calls)].result = result]

\* return new Response(...)
Return(r) ==
    /\ responses' = Append(responses, r)
    /\ pc' = "done"

\* if (req.method === 'OPTIONS') return ...
Preflight ==
    /\ pc = "start"
    /\ req.method = "OPTIONS"
    /\ Return(PreflightResponse)
    /\ UNCHANGED <<uploadVars, caller, fragment, citation, documents, req, calls, queryEmbedding, rpcArgs, chunks,
                   searchError, context>>

\* createClient(...); await req.json()
ReadBody ==
    /\ pc = "start"
    /\ req.method # "OPTIONS"
    /\ IF req.bodyIsJson
       THEN /\ pc' = "validate"
            /\ UNCHANGED responses
       ELSE Return(InternalErrorResponse("SyntaxError"))
    /\ UNCHANGED <<uploadVars, caller, fragment, citation, documents, req, calls, queryEmbedding, rpcArgs, chunks,
                   searchError, context>>

\* Validate looking at the query only
ValidateQueryOnly ==
    /\ pc = "validate"
    /\ IF ~TruthyField(req.fields, "query")
       THEN Return(ValidationResponse)
       ELSE /\ pc' = "embed"
            /\ UNCHANGED responses
    /\ UNCHANGED <<uploadVars, caller, fragment, citation, documents, req, calls, queryEmbedding, rpcArgs, chunks,
                   searchError, context>>

\* if (!query || !user_id) return 400
Validate ==
    /\ pc = "validate"
    /\ IF ~TruthyField(req.fields, "query") \/ ~TruthyField(req.fields, "user_id")
       THEN Return(ValidationResponse)
       ELSE /\ pc' = "embed"
            /\ UNCHANGED responses
    /\ UNCHANGED <<uploadVars, caller, fragment, citation, documents, req, calls, queryEmbedding, rpcArgs, chunks,
                   searchError, context>>

\* generateEmbedding(query) is entered: the fetch is sent
CallEmbedding ==
    /\ pc = "embed"
    /\ Called("embed")
    /\ pc' = "embedding"
    /\ UNCHANGED <<uploadVars, caller, fragment, citation, documents, req, queryEmbedding, rpcArgs, chunks,
                   searchError, context, responses>>

\* EmbeddingReturns calling the capability once more after a failure
EmbeddingReturnsRetry ==
    /\ pc = "embedding"
    /\ \E resp \in EmbedResponses :
          LET r == generateEmbedding(resp) IN
          IF r.threw
          THEN /\ Settled("failed")
               /\ IF Len(calls) < 2
                  THEN pc' = "embed" /\ UNCHANGED responses
                  ELSE Return(InternalErrorResponse(r.message))
               /\ UNCHANGED queryEmbedding
          ELSE /\ Settled("returned")
               /\ queryEmbedding' = r.value
               /\ pc' = "retrieve"
               /\ UNCHANGED responses
    /\ UNCHANGED <<uploadVars, caller, fragment, citation, documents, req, rpcArgs, chunks,
                   searchError, context>>

\* await generateEmbedding(query) settles
EmbeddingReturns ==
    /\ pc = "embedding"
    /\ \E resp \in EmbedResponses :
          LET r == generateEmbedding(resp) IN
          IF r.threw
          THEN /\ Settled("failed")
               /\ Return(InternalErrorResponse(r.message))
               /\ UNCHANGED queryEmbedding
          ELSE /\ Settled("returned")
               /\ queryEmbedding' = r.value
               /\ pc' = "retrieve"
               /\ UNCHANGED responses
    /\ UNCHANGED <<uploadVars, caller, fragment, citation, documents, req, rpcArgs, chunks, searchError, context>>

\* supabase.rpc('match_document_chunks', {...}) is sent
CallRpc ==
    /\ pc = "retrieve"
    /\ Called("retrieve")
    /\ rpcArgs' = [ query_embedding |-> queryEmbedding,
                    match_threshold |-> MatchThreshold,
                    match_count |-> MatchCount,
                    user_id_filter |-> FieldGet(req.fields, "user_id") ]
    /\ pc' = "retrieving"
    /\ UNCHANGED <<uploadVars, caller, fragment, citation, documents, req, queryEmbedding, chunks, searchError, context,
                   responses>>

\* const { data: chunks, error: searchError } = await ...
RpcReturns ==
    /\ pc = "retrieving"
    /\ \E out \in RpcOutcomes(rpcArgs, documents) :
          /\ chunks' = out.data
          /\ searchError' = out.error
          /\ Settled(IF out.error.null THEN "returned" ELSE "failed")
    /\ pc' = "retrieved"
    /\ UNCHANGED <<uploadVars, caller, fragment, citation, documents, req, queryEmbedding, rpcArgs, context, responses>>

\* HandleSearchResult without the early return on an empty result
HandleSearchResultNoEmptyCheck ==
    /\ pc = "retrieved"
    /\ IF ~searchError.null
       THEN /\ Return(SearchFailedResponse(searchError))
            /\ UNCHANGED context
       ELSE /\ context' = Context(chunks.rows)
            /\ pc' = "generate"
            /\ UNCHANGED responses
    /\ UNCHANGED <<uploadVars, caller, fragment, citation, documents, req, calls, queryEmbedding, rpcArgs, chunks,
                   searchError>>

\* HandleSearchResult without the early return on searchError
HandleSearchResultIgnoreError ==
    /\ pc = "retrieved"
    /\ IF chunks.null \/ Len(chunks.rows) = 0
       THEN /\ Return(EmptyResultResponse)
            /\ UNCHANGED context
       ELSE /\ context' = Context(chunks.rows)
            /\ pc' = "generate"
            /\ UNCHANGED responses
    /\ UNCHANGED <<uploadVars, caller, fragment, citation, documents, req, calls, queryEmbedding, rpcArgs, chunks,
                   searchError>>

\* the two early returns after the rpc, then the context block
HandleSearchResult ==
    /\ pc = "retrieved"
    /\ IF ~searchError.null
       THEN /\ Return(SearchFailedResponse(searchError))
            /\ UNCHANGED context
       ELSE IF chunks.null \/ Len(chunks.rows) = 0
       THEN /\ Return(EmptyResultResponse)
            /\ UNCHANGED context
       ELSE /\ context' = Context(chunks.rows)
            /\ pc' = "generate"
            /\ UNCHANGED responses
    /\ UNCHANGED <<uploadVars, caller, fragment, citation, documents, req, calls, queryEmbedding, rpcArgs, chunks,
                   searchError>>

\* generateAnswer(query, context) is entered: the fetch is sent
CallGenerate ==
    /\ pc = "generate"
    /\ Called("generate")
    /\ pc' = "generating"
    /\ UNCHANGED <<uploadVars, caller, fragment, citation, documents, req, queryEmbedding, rpcArgs, chunks, searchError,
                   context, responses>>

\* GenerateReturns answering with the citations when generation fails
GenerateReturnsPartial ==
    /\ pc = "generating"
    /\ \E resp \in GenResponses :
          LET r == generateAnswer(resp) IN
          /\ Settled(IF r.threw THEN "failed" ELSE "returned")
          /\ Return(SuccessResponse(r.value, chunks.rows))
    /\ UNCHANGED <<uploadVars, caller, fragment, citation, documents, req, queryEmbedding, rpcArgs, chunks, searchError,
                   context>>

\* GenerateReturns without the catch: a rejection ends the run unanswered
GenerateReturnsUncaught ==
    /\ pc = "generating"
    /\ \E resp \in GenResponses :
          LET r == generateAnswer(resp) IN
          IF r.threw
          THEN /\ Settled("failed")
               /\ pc' = "done"
               /\ UNCHANGED responses
          ELSE /\ Settled("returned")
               /\ Return(SuccessResponse(r.value, chunks.rows))
    /\ UNCHANGED <<uploadVars, caller, fragment, citation, documents, req,
                   queryEmbedding, rpcArgs, chunks, searchError, context>>

\* await generateAnswer(...) settles; citations and the 200 response
GenerateReturns ==
    /\ pc = "generating"
    /\ \E resp \in GenResponses :
          LET r == generateAnswer(resp) IN
          IF r.threw
          THEN /\ Settled("failed")
               /\ Return(InternalErrorResponse(r.message))
          ELSE /\ Settled("returned")
               /\ Return(SuccessResponse(r.value, chunks.rows))
    /\ UNCHANGED <<uploadVars, caller, fragment, citation, documents, req, queryEmbedding, rpcArgs, chunks, searchError,
                   context>>

Next ==
    \/ Preflight
    \/ ReadBody
    \/ Validate
    \/ CallEmbedding
    \/ EmbeddingReturns
    \/ CallRpc
    \/ RpcReturns
    \/ HandleSearchResult
    \/ CallGenerate
    \/ GenerateReturns

Spec == Init /\ [][Next]_vars

\* the handler when every awaited call settles and the runtime keeps running
\* the handler's own steps
SpecFair == Init /\ [][Next]_vars /\ WF_vars(Next)

----------------------------------------------------------------------------
(* match_document_chunks called directly.  EXECUTE is granted to            *)
(* authenticated, so a signed-in user can call the function with arguments  *)
(* of their choice.  The function is SECURITY DEFINER: it reads the tables  *)
(* as its owner, to whom the row level security policies do not apply.      *)

\* policy "Users can view chunks from own documents", for auth.uid() = uid
ChunkSelectPolicy(i, uid, docs) ==
    \E d \in DOMAIN docs :
       /\ docs[d].id = document_chunks[i].document_id
       /\ docs[d].uploaded_by = uid

DirectThresholds == {0, MatchThreshold, 55, 80}

DirectCounts == (1..MaxDirectCount) \cup {MatchCount}

\* user_id_filter as the caller may pass it: left out (NULL) or any uuid
DirectFilters ==
    { [def |-> FALSE, val |-> ""] } \cup { [def |-> TRUE, val |-> u] : u \in Users }

DirectInit ==
    /\ documents \in DocumentTables
    /\ caller \in Users
    /\ pc = "rpc_idle"
    /\ req = [method |-> "RPC", bodyIsJson |-> FALSE, fields |-> [k \in {} |-> ""]]
    /\ calls = <<>>
    /\ queryEmbedding = UndefinedVec
    /\ rpcArgs = NoArgs
    /\ chunks = NullData
    /\ searchError = NoError
    /\ context = <<>>
    /\ responses = <<>>
    /\ fragment = <<>>
    /\ citation = <<>>
    /\ files = <<>>
    /\ selection = <<>>
    /\ completeCalls = <<>>
    /\ storage = {}

\* the caller sends select match_document_chunks(...)
DirectCall ==
    /\ pc = "rpc_idle"
    /\ \E qv \in QueryVectors, th \in DirectThresholds, n \in DirectCounts,
          f \in DirectFilters :
          rpcArgs' = [ query_embedding |-> [def |-> TRUE, dim |-> VectorDim, vec |-> qv],
                       match_threshold |-> th,
                       match_count |-> n,
                       user_id_filter |-> f ]
    /\ pc' = "rpc_running"
    /\ UNCHANGED <<uploadVars, caller, fragment, citation, documents, req, calls,
                   queryEmbedding, chunks, searchError, context, responses>>

\* RETURN QUERY: the rows go back to the caller
DirectReturn ==
    /\ pc = "rpc_running"
    /\ \E rows \in match_document_chunks(rpcArgs.query_embedding.vec,
                                         rpcArgs.match_threshold,
                                         rpcArgs.match_count,
                                         FilterParam(rpcArgs.user_id_filter),
                                         documents) :
          chunks' = Data(rows)
    /\ pc' = "rpc_done"
    /\ UNCHANGED <<uploadVars, caller, fragment, citation, documents, req, calls,
                   queryEmbedding, rpcArgs, searchError, context, responses>>

\* every client of the store: the edge function and direct callers
StoreInit == Init \/ DirectInit

StoreNext ==
    \/ Preflight
    \/ ReadBody
    \/ Validate
    \/ CallEmbedding
    \/ EmbeddingReturns
    \/ CallRpc
    \/ RpcReturns
    \/ HandleSearchResult
    \/ CallGenerate
    \/ GenerateReturns
    \/ DirectCall
    \/ DirectReturn

SpecStore == StoreInit /\ [][StoreNext]_vars

----------------------------------------------------------------------------
(* The citation builder taken alone, over the fragments the store may hold *)

MetadataValues ==
    { [null |-> TRUE, obj |-> NoMeta], [null |-> FALSE, obj |-> NoMeta] }
    \cup { [null |-> FALSE, obj |-> ("page_number" :> n)] : n \in {0, 4} }
    \cup { [null |-> FALSE, obj |-> ("timestamp" :> t)] : t \in {0, 12} }
    \cup { [null |-> FALSE, obj |-> ("page_number" :> n @@ "timestamp" :> t)]
             : n \in {0, 4}, t \in {0, 12} }

Fragments ==
    { [ id |-> 1,
        document_id |-> d,
        chunk_text |-> <<"text", 1>>,
        chunk_index |-> ci,
        chunk_metadata |-> m,
        filename |-> fn,
        file_type |-> ft,
        similarity |-> 81 ]
      : d \in {"d1", "d2"}, ci \in {0, 2}, m \in MetadataValues,
        fn \in {"policy.pdf", "notes"}, ft \in FileTypes }

CitationInit ==
    /\ fragment \in { <<f>> : f \in Fragments }
    /\ citation = <<>>
    /\ files = <<>>
    /\ selection = <<>>
    /\ completeCalls = <<>>
    /\ storage = {}
    /\ pc = "cite"
    /\ documents \in { t \in DocumentTables :
                          \A d \in DOMAIN t : /\ t[d].uploaded_by = "u1"
                                              /\ t[d].processing_status = "completed" }
    /\ caller = "service_role"
    /\ req = [method |-> "POST", bodyIsJson |-> FALSE, fields |-> [k \in {} |-> ""]]
    /\ calls = <<>>
    /\ queryEmbedding = UndefinedVec
    /\ rpcArgs = NoArgs
    /\ chunks = NullData
    /\ searchError = NoError
    /\ context = <<>>
    /\ responses = <<>>

\* one element of chunks.map(...) at index.ts:82
BuildCitation ==
    /\ pc = "cite"
    /\ citation' = <<Citation(fragment[1])>>
    /\ pc' = "cited"
    /\ UNCHANGED <<uploadVars, caller, fragment, documents, req, calls, queryEmbedding,
                   rpcArgs, chunks, searchError, context, responses>>

CitationNext == BuildCitation

SpecCitation == CitationInit /\ [][CitationNext]_vars

-----------------------------------------------------------------------------
(* DocumentUpload: handleFileSelect and removeFile.  Between two awaits the
   handler runs to completion, so one action is the code from one settled
   await to the next await (or to the end of the handler). *)

\* runs of handleFileSelect the model follows
NumSelections == 2

\* files selected in all the runs together, at most
MaxFiles == 3

\* uses of the remove button the model follows
MaxRemovals == 1

\* status of an UploadedFile
UploadStatuses == {"uploading", "processing", "completed", "error"}

\* the files of e.target.files, by position: name and its last '.'-segment
SelectedFile(k) ==
    CASE k = 1 -> [name |-> "notes.DOC", ext |-> "DOC"]
      [] k = 2 -> [name |-> "call.mp3",  ext |-> "mp3"]
      [] k = 3 -> [name |-> "data.csv",  ext |-> "csv"]
      [] OTHER -> [name |-> "scan.png",  ext |-> "png"]

\* ext?.toLowerCase() on the extensions met
ExtLowerCase(ext) == IF ext = "DOC" THEN "doc" ELSE ext

getFileType(file) ==
    LET ext == ExtLowerCase(file.ext) IN
    CASE ext = "pdf" -> <<"p","d","f">>
      [] ext \in {"docx", "doc"} -> <<"d","o","c","x">>
      [] ext = "txt" -> <<"t","x","t">>
      [] ext \in {"jpg", "jpeg", "png", "gif", "webp"} -> <<"i","m","a","g","e">>
      [] ext \in {"mp3", "wav", "ogg", "m4a"} -> <<"a","u","d","i","o">>
      [] OTHER -> <<"t","x","t">>

\* crypto.randomUUID() of the k-th file of run s: never the same twice
FileId(s, k) == <<s, k>>

\* selectedFiles.map(file => ({file, id, status: 'uploading'}))
uploadedFiles(s, n) ==
    [k \in 1..n |-> [id |-> FileId(s, k), file |-> SelectedFile(k),
                     status |-> "uploading"]]

\* prev => prev.map(f => f.id === id ? {...f, status} : f)
SetStatus(prev, id, status) ==
    [i \in DOMAIN prev |->
        IF prev[i].id = id THEN [prev[i] EXCEPT !.status = status] ELSE prev[i]]

\* ids of the files listed
ListedIds(list) == {list[i].id : i \in DOMAIN list}

\* ids of the files selected so far
SelectedIds ==
    UNION { {FileId(s, k) : k \in 1..selection[s].n} : s \in DOMAIN selection }

\* prev => prev.filter(f => f.id !== id)
FilterOut(prev, id) == SelectSeq(prev, LAMBDA f : f.id # id)

\* `${user?.id}/${Date.now()}_${file.name}`
StoragePath(user, s, k) == <<user, FileId(s, k), SelectedFile(k).name>>

\* the row .insert({...}) adds; processing_status takes its DEFAULT
InsertedRow(user, s, k) ==
    [ id |-> FileId(s, k), filename |-> SelectedFile(k).name,
      file_type |-> getFileType(SelectedFile(k)),
      uploaded_by |-> user, processing_status |-> "pending" ]

NoDocuments == [d \in {} |-> 0]

UploadInit ==
    /\ files = <<>>
    /\ selection = <<>>
    /\ completeCalls = <<>>
    /\ storage = {}
    /\ documents = NoDocuments
    /\ caller \in Users
    /\ pc = "upload"
    /\ fragment = <<>>
    /\ citation = <<>>
    /\ req = [method |-> "POST", bodyIsJson |-> FALSE, fields |-> [k \in {} |-> ""]]
    /\ calls = <<>>
    /\ queryEmbedding = UndefinedVec
    /\ rpcArgs = NoArgs
    /\ chunks = NullData
    /\ searchError = NoError
    /\ context = <<>>
    /\ responses = <<>>

handlerVars == <<caller, pc, fragment, citation, req, calls, queryEmbedding,
                 rpcArgs, chunks, searchError, context, responses>>

\* the for loop at file k of run s, after list has taken the updates made so
\* far: the next storage upload is awaited, or the loop is over and
\* onUploadComplete() is called
LoopAt(s, k, run) ==
    IF k <= run.n
    THEN /\ selection' = [selection EXCEPT ![s] =
                             [run EXCEPT !.idx = k, !.step = "upload",
                                         !.attempts = run.attempts + 1]]
         /\ completeCalls' = completeCalls
    ELSE /\ selection' = [selection EXCEPT ![s] =
                             [run EXCEPT !.idx = k, !.step = "finished"]]
         /\ completeCalls' = [completeCalls EXCEPT ![s] = completeCalls[s] + 1]

\* onChange of the file input: the selection joins the list as 'uploading'
\* and the loop reaches its first await
handleFileSelect ==
    /\ pc = "upload"
    /\ Len(selection) < NumSelections
    /\ \E n \in 0..(MaxFiles - Cardinality(SelectedIds)) :
          LET s   == Len(selection) + 1
              run == [n |-> n, idx |-> 1, step |-> "upload", attempts |-> 0]
          IN  /\ files' = files \o uploadedFiles(s, n)
              /\ IF n >= 1
                 THEN /\ selection' = Append(selection,
                                             [run EXCEPT !.attempts = 1])
                      /\ completeCalls' = Append(completeCalls, 0)
                 ELSE /\ selection' = Append(selection,
                                             [run EXCEPT !.step = "finished"])
                      /\ completeCalls' = Append(completeCalls, 1)
    /\ UNCHANGED <<storage, documents, handlerVars>>

\* UploadSettles with a failure that leaves the loop
UploadSettlesBreak ==
    /\ pc = "upload"
    /\ \E s \in DOMAIN selection :
          LET run == selection[s]
              id  == FileId(s, run.idx)
          IN  /\ run.step = "upload"
              /\ \E uploadError \in BOOLEAN :
                    IF uploadError
                    THEN /\ files' = SetStatus(files, id, "error")
                         /\ storage' = storage
                         /\ selection' = [selection EXCEPT ![s] =
                                [run EXCEPT !.idx = run.idx + 1,
                                            !.step = "finished"]]
                         /\ completeCalls' =
                                [completeCalls EXCEPT ![s] = completeCalls[s] + 1]
                    ELSE /\ files' = SetStatus(files, id, "processing")
                         /\ storage' = storage \cup {StoragePath(caller, s, run.idx)}
                         /\ selection' = [selection EXCEPT ![s] =
                                             [run EXCEPT !.step = "insert"]]
                         /\ completeCalls' = completeCalls
    /\ UNCHANGED <<documents, handlerVars>>

\* await supabase.storage...upload(...) settles: 'processing' and the insert
\* is awaited, or the catch sets 'error' and the loop goes on
UploadSettles ==
    /\ pc = "upload"
    /\ \E s \in DOMAIN selection :
          LET run == selection[s]
              id  == FileId(s, run.idx)
          IN  /\ run.step = "upload"
              /\ \E uploadError \in BOOLEAN :
                    IF uploadError
                    THEN /\ files' = SetStatus(files, id, "error")
                         /\ storage' = storage
                         /\ LoopAt(s, run.idx + 1, run)
                    ELSE /\ files' = SetStatus(files, id, "processing")
                         /\ storage' = storage \cup {StoragePath(caller, s, run.idx)}
                         /\ selection' = [selection EXCEPT ![s] =
                                             [run EXCEPT !.step = "insert"]]
                         /\ completeCalls' = completeCalls
    /\ UNCHANGED <<documents, handlerVars>>

\* await supabase.from('documents').insert(...) settles: 'completed', or the
\* catch sets 'error'; either way the loop goes on
InsertSettles ==
    /\ pc = "upload"
    /\ \E s \in DOMAIN selection :
          LET run == selection[s]
              id  == FileId(s, run.idx)
          IN  /\ run.step = "insert"
              /\ \E dbError \in BOOLEAN :
                    IF dbError
                    THEN /\ files' = SetStatus(files, id, "error")
                         /\ documents' = documents
                    ELSE /\ files' = SetStatus(files, id, "completed")
                         /\ documents' = documents @@
                               (id :> InsertedRow(caller, s, run.idx))
              /\ LoopAt(s, run.idx + 1, run)
    /\ UNCHANGED <<storage, handlerVars>>

\* the X button of a listed file, whatever its status
removeFile ==
    /\ pc = "upload"
    /\ Cardinality(SelectedIds \ ListedIds(files)) < MaxRemovals
    /\ \E i \in DOMAIN files : files' = FilterOut(files, files[i].id)
    /\ UNCHANGED <<selection, completeCalls, storage, documents, handlerVars>>

UploadNext ==
    \/ handleFileSelect
    \/ UploadSettles
    \/ InsertSettles
    \/ removeFile

SpecUpload == UploadInit /\ [][UploadNext]_vars

----------------------------------------------------------------------------
(* Properties *)

Range(f) == {f[k] : k \in DOMAIN f}

Finished == pc = "done"

\* retrieval was called and has settled
Retrieved == Len(calls) >= 2 /\ calls[2].result # "pending"

IsWhitespaceOnly(q) == q = " "

Owner(docId) == documents[docId].uploaded_by

\* C1: every fragment named in the citations or retrieved_chunks of a 200
\* response belongs to a document uploaded by the request's user_id, and
\* the user_id_filter passed to match_document_chunks is the request's
\* user_id.
C1_OwnerIsolation ==
    /\ rpcArgs # NoArgs =>
          /\ "user_id" \in DOMAIN req.fields
          /\ rpcArgs.user_id_filter = [def |-> TRUE, val |-> req.fields["user_id"]]
    /\ \A r \in Range(responses) :
          r.status = 200 =>
             /\ \A c \in Range(r.body.citations) :
                   Owner(c.document_id) = req.fields["user_id"]
             /\ \A rc \in Range(r.body.retrieved_chunks) :
                   /\ document_chunks[rc.chunk_id].document_id = rc.document_id
                   /\ Owner(rc.document_id) = req.fields["user_id"]

\* a success response with citations, while another user owns a completed
\* document with a chunk above the threshold
W1_OtherOwnersChunkLeftOut ==
    /\ Finished
    /\ Len(responses) = 1
    /\ responses[1].status = 200
    /\ responses[1].body.citations # <<>>
    /\ \E i \in DOMAIN document_chunks :
          /\ Owner(document_chunks[i].document_id) # req.fields["user_id"]
          /\ documents[document_chunks[i].document_id].processing_status = "completed"
          /\ ~document_chunks[i].embedding_null
          /\ Similarity(i, rpcArgs.query_embedding.vec) > MatchThreshold

\* C2: when retrieval returns no error and no fragment (an empty array or
\* null), generateAnswer is never called and the response is 200 with the
\* fixed non-empty fallback answer, citations [] and retrieved_chunks [].
C2_EmptyResultFallback ==
    (Retrieved /\ searchError.null /\ (chunks.null \/ chunks.rows = <<>>)) =>
       /\ \A k \in DOMAIN calls : calls[k].op # "generate"
       /\ pc \in {"retrieved", "done"}
       /\ Finished =>
            /\ Len(responses) = 1
            /\ responses[1].status = 200
            /\ responses[1].body.keys = {"answer", "citations", "retrieved_chunks"}
            /\ responses[1].body.answer = FallbackAnswer
            /\ FallbackAnswer # ""
            /\ responses[1].body.citations = <<>>
            /\ responses[1].body.retrieved_chunks = <<>>

\* the handler has answered a retrieval that returned an empty array
W2_EmptyArrayAnswered ==
    /\ Finished
    /\ Retrieved
    /\ searchError.null
    /\ ~chunks.null
    /\ chunks.rows = <<>>

\* C3: a JSON request whose query is "" or absent, or whose user_id is ""
\* or absent, makes no outbound call and is answered 400 with
\* { error: "Query and user_id are required" }.
C3_MissingFieldRejected ==
    ( /\ req.method = "POST"
      /\ req.bodyIsJson
      /\ \/ "query" \notin DOMAIN req.fields
         \/ req.fields["query"] = ""
         \/ "user_id" \notin DOMAIN req.fields
         \/ req.fields["user_id"] = "" ) =>
       /\ calls = <<>>
       /\ Finished =>
            /\ Len(responses) = 1
            /\ responses[1].status = 400
            /\ responses[1].body.keys = {"error"}
            /\ responses[1].body.error = "Query and user_id are required"

\* a request with a question and no user_id has been answered
W3_NoUserIdAnswered ==
    /\ Finished
    /\ req.method = "POST"
    /\ req.bodyIsJson
    /\ "query" \in DOMAIN req.fields
    /\ req.fields["query"] # ""
    /\ "user_id" \notin DOMAIN req.fields
    /\ Len(responses) = 1
    /\ responses[1].status = 400

\* C4: a request whose query is whitespace only, with a valid user_id,
\* makes no outbound call and is answered with the 400 validation response.
X4_WhitespaceQueryRejected ==
    ( /\ req.method = "POST"
      /\ req.bodyIsJson
      /\ "query" \in DOMAIN req.fields
      /\ IsWhitespaceOnly(req.fields["query"])
      /\ "user_id" \in DOMAIN req.fields
      /\ req.fields["user_id"] \in Users ) =>
       /\ calls = <<>>
       /\ Finished =>
            /\ Len(responses) = 1
            /\ responses[1].status = 400

\* C5: for a non-empty retrieval result F1..Fn the context block has n
\* entries with ordinals 1..n, entry i made from Fi, and a 200 response has
\* n citations and n retrieved_chunks, the i-th of each made from Fi.
C5_IndexAlignment ==
    LET F == chunks.rows IN
    /\ pc \in {"generate", "generating"} \/ (Finished /\ Len(calls) = 3) =>
          /\ F # <<>>
          /\ Len(context) = Len(F)
          /\ \A i \in DOMAIN F :
                /\ context[i].ordinal = i
                /\ context[i].filename = F[i].filename
                /\ context[i].file_type = F[i].file_type
                /\ context[i].chunk_text = F[i].chunk_text
    /\ (Finished /\ Len(calls) = 3 /\ responses[1].status = 200) =>
          /\ Len(responses[1].body.citations) = Len(F)
          /\ Len(responses[1].body.retrieved_chunks) = Len(F)
          /\ \A i \in DOMAIN F :
                /\ responses[1].body.citations[i].document_id = F[i].document_id
                /\ responses[1].body.citations[i].source = F[i].filename
                /\ responses[1].body.retrieved_chunks[i].chunk_id = F[i].id
                /\ responses[1].body.retrieved_chunks[i].document_id = F[i].document_id
                /\ document_chunks[F[i].id].chunk_text = context[i].chunk_text

\* a success response over at least three fragments of at least two documents
W5_SeveralFragmentsCited ==
    /\ Finished
    /\ Len(responses) = 1
    /\ responses[1].status = 200
    /\ Len(responses[1].body.citations) >= 3
    /\ responses[1].body.citations[1].document_id
          # responses[1].body.citations[Len(chunks.rows)].document_id

HasKey(meta, key) == ~meta.null /\ key \in DOMAIN meta.obj

\* C6: in a 200 response, a fragment whose chunk_metadata has both a page
\* number and a timestamp is cited as "Page {page_number}", and a fragment
\* whose chunk_metadata has neither (or is null) as "Chunk {chunk_index}".
X6_PageBeforeTimestamp ==
    (Finished /\ Len(calls) = 3 /\ responses[1].status = 200) =>
       \A i \in DOMAIN chunks.rows :
          LET m == chunks.rows[i].chunk_metadata
              ref == responses[1].body.citations[i].reference
          IN  /\ (HasKey(m, "page_number") /\ HasKey(m, "timestamp")) =>
                    ref = <<"Page", m.obj["page_number"]>>
              /\ (~HasKey(m, "page_number") /\ ~HasKey(m, "timestamp")) =>
                    ref = <<"Chunk", chunks.rows[i].chunk_index>>

\* C7: in a 200 response the reference follows the presence of the key,
\* whatever its value: "Page {n}" when page_number is present, else
\* "Timestamp {t}" when timestamp is present, else "Chunk {index}".
X7_ReferenceByPresence ==
    (Finished /\ Len(calls) = 3 /\ responses[1].status = 200) =>
       \A i \in DOMAIN chunks.rows :
          LET m == chunks.rows[i].chunk_metadata
              ref == responses[1].body.citations[i].reference
          IN  ref = IF HasKey(m, "page_number")
                    THEN <<"Page", m.obj["page_number"]>>
                    ELSE IF HasKey(m, "timestamp")
                    THEN <<"Timestamp", m.obj["timestamp"]>>
                    ELSE <<"Chunk", chunks.rows[i].chunk_index>>

\* C8: a call that fails (its promise rejects, or it resolves to an error
\* value) is the last call of the execution, the response is then 500 with
\* error and details, and no response has error next to answer, citations
\* or retrieved_chunks.
C8_FailureShortCircuits ==
    /\ \A k \in DOMAIN calls :
          calls[k].result = "failed" =>
             /\ k = Len(calls)
             /\ pc \in {"retrieved", "done"}
             /\ Finished =>
                  /\ Len(responses) = 1
                  /\ responses[1].status = 500
                  /\ responses[1].body.keys = {"error", "details"}
    /\ \A r \in Range(responses) :
          "error" \in r.body.keys =>
             r.body.keys \cap {"answer", "citations", "retrieved_chunks"} = {}

\* the generation call failed after a non-empty retrieval and was answered
W8_GenerationFailed ==
    /\ Finished
    /\ Len(calls) = 3
    /\ calls[3].result = "failed"
    /\ chunks.rows # <<>>

\* C9: when the rpc resolves to an error, from the database or because the
\* request could not be completed, generateAnswer is not called and the
\* response is 500 { error: "Search failed", details }.
C9_SearchFailed ==
    (Len(calls) >= 2 /\ calls[2].result = "failed") =>
       /\ Len(calls) = 2
       /\ ~searchError.null
       /\ Finished =>
            /\ Len(responses) = 1
            /\ responses[1].status = 500
            /\ responses[1].body.keys = {"error", "details"}
            /\ responses[1].body.error = "Search failed"
            /\ responses[1].body.details = searchError.code

\* an rpc whose request could not be completed has been answered
W9_FetchErrorAnswered ==
    /\ Finished
    /\ Len(calls) = 2
    /\ calls[2].result = "failed"
    /\ searchError.code = "fetch_error"

\* C10: no 200 response has citations and an empty or absent answer.
X10_NoEmptyAnswerWithCitations ==
    \A r \in Range(responses) :
       ~ ( /\ r.status = 200
           /\ r.body.citations # <<>>
           /\ ("answer" \notin r.body.keys \/ r.body.answer = "") )

----------------------------------------------------------------------------
(* Properties of retrieval *)

\* match_document_chunks has returned rows, to the handler or to a direct
\* caller
ResultReturned ==
    \/ pc = "rpc_done"
    \/ (Retrieved /\ searchError.null /\ ~chunks.null)

\* the chunks the call in rpcArgs may return, read off the store
Qualifying ==
    LET f == FilterParam(rpcArgs.user_id_filter) IN
    { i \in DOMAIN document_chunks :
         /\ f.null \/ Owner(document_chunks[i].document_id) = f.val
         /\ ~document_chunks[i].embedding_null
         /\ documents[document_chunks[i].document_id].processing_status = "completed"
         /\ Similarity(i, rpcArgs.query_embedding.vec) > rpcArgs.match_threshold }

ReturnedIds == {chunks.rows[k].id : k \in DOMAIN chunks.rows}

Min(a, b) == IF a <= b THEN a ELSE b

\* C11: the vector passed to match_document_chunks is always a vector of
\* 384 numbers, and a "Search failed" response never follows from a
\* malformed embedding.
X11_MalformedEmbeddingStopsAtEmbedding ==
    /\ rpcArgs # NoArgs => IsVector(rpcArgs.query_embedding)
    /\ \A r \in Range(responses) :
          ("error" \in r.body.keys /\ r.body.error = "Search failed") =>
             IsVector(queryEmbedding)

\* C12: every row returned by match_document_chunks has a similarity
\* strictly greater than the match_threshold of the call, and the rows are
\* in non-increasing order of similarity.
C12_AboveThresholdSorted ==
    ResultReturned =>
       /\ \A k \in DOMAIN chunks.rows :
             /\ chunks.rows[k].similarity
                   = Similarity(chunks.rows[k].id, rpcArgs.query_embedding.vec)
             /\ chunks.rows[k].similarity > rpcArgs.match_threshold
       /\ \A k, l \in DOMAIN chunks.rows :
             k < l => chunks.rows[k].similarity >= chunks.rows[l].similarity

\* a direct call returned rows of different similarities and left out a
\* chunk whose similarity equals the threshold
W12_ChunkAtThresholdLeftOut ==
    /\ pc = "rpc_done"
    /\ Len(chunks.rows) >= 2
    /\ chunks.rows[1].similarity > chunks.rows[Len(chunks.rows)].similarity
    /\ Len(chunks.rows) < rpcArgs.match_count
    /\ \E i \in DOMAIN document_chunks :
          /\ Similarity(i, rpcArgs.query_embedding.vec) = rpcArgs.match_threshold
          /\ ~document_chunks[i].embedding_null
          /\ documents[document_chunks[i].document_id].processing_status = "completed"
          /\ rpcArgs.user_id_filter.def =>
                Owner(document_chunks[i].document_id) = rpcArgs.user_id_filter.val

\* C13: every row returned by match_document_chunks, and every entry of
\* retrieved_chunks in a response, is a chunk with an embedding whose
\* document has processing_status 'completed'.
C13_OnlyCompletedWithEmbedding ==
    /\ ResultReturned =>
          \A k \in DOMAIN chunks.rows :
             /\ ~document_chunks[chunks.rows[k].id].embedding_null
             /\ documents[chunks.rows[k].document_id].processing_status = "completed"
    /\ \A r \in Range(responses) :
          \A rc \in Range(r.body.retrieved_chunks) :
             /\ ~document_chunks[rc.chunk_id].embedding_null
             /\ documents[rc.document_id].processing_status = "completed"

\* rows were returned while a chunk above the threshold, of the right owner,
\* belongs to a document that is not completed
W13_UnfinishedDocumentLeftOut ==
    /\ ResultReturned
    /\ chunks.rows # <<>>
    /\ \E i \in DOMAIN document_chunks :
          /\ documents[document_chunks[i].document_id].processing_status # "completed"
          /\ ~document_chunks[i].embedding_null
          /\ Similarity(i, rpcArgs.query_embedding.vec) > chunks.rows[1].similarity
          /\ rpcArgs.user_id_filter.def =>
                Owner(document_chunks[i].document_id) = rpcArgs.user_id_filter.val

X15_StableTieBreak ==
    ResultReturned =>
       /\ \A k, l \in DOMAIN chunks.rows :
             (k < l /\ chunks.rows[k].similarity = chunks.rows[l].similarity) =>
                chunks.rows[k].id < chunks.rows[l].id
       /\ \A i \in Qualifying \ ReturnedIds :
             \A k \in DOMAIN chunks.rows :
                Similarity(i, rpcArgs.query_embedding.vec) = chunks.rows[k].similarity =>
                   chunks.rows[k].id < i

\* C16: the citations and retrieved_chunks of a 200 response are the ones
\* every execution with the same question, user_id, embedding and store
\* produces: each result the same rpc can return on the same store gives
\* the same two lists.
X16_SameListsOnRerun ==
    (Finished /\ Len(calls) = 3 /\ responses[1].status = 200) =>
       \A out \in RpcOutcomes(rpcArgs, documents) :
          (out.error.null /\ ~out.data.null) =>
             /\ Citations(out.data.rows) = responses[1].body.citations
             /\ RetrievedChunks(out.data.rows) = responses[1].body.retrieved_chunks

\* C17: whatever user_id_filter a signed-in caller passes, every row
\* returned to them is a chunk of a document they uploaded.
X17_DirectCallerSeesOwnChunksOnly ==
    pc = "rpc_done" =>
       \A k \in DOMAIN chunks.rows :
          /\ ChunkSelectPolicy(chunks.rows[k].id, caller, documents)
          /\ Owner(chunks.rows[k].document_id) = caller

----------------------------------------------------------------------------
(* Properties of the citation builder and of the handler's protocol *)

Capitalized(ft) ==
    CASE ft = <<"p","d","f">>         -> <<"P","d","f">>
      [] ft = <<"d","o","c","x">>     -> <<"D","o","c","x">>
      [] ft = <<"t","x","t">>         -> <<"T","x","t">>
      [] ft = <<"i","m","a","g","e">> -> <<"I","m","a","g","e">>
      [] ft = <<"a","u","d","i","o">> -> <<"A","u","d","i","o">>

\* C18: the citation of a fragment has the fragment's filename as source,
\* its document_id, and as type its file_type with the first character in
\* upper case and the others unchanged, for pdf, docx, txt, image and audio.
C18_CitationFromFragment ==
    citation # <<>> =>
       /\ fragment[1].file_type \in FileTypes
       /\ citation[1].source = fragment[1].filename
       /\ citation[1].document_id = fragment[1].document_id
       /\ citation[1].type = Capitalized(fragment[1].file_type)
       /\ Tail(citation[1].type) = Tail(fragment[1].file_type)

\* a docx fragment has been cited
W18_DocxCited ==
    /\ citation # <<>>
    /\ fragment[1].file_type = <<"d","o","c","x">>
    /\ citation[1].type = <<"D","o","c","x">>

\* C19: an OPTIONS request is answered 200 without body, without the
\* request body being read and without outbound call, and every response
\* of the handler carries the CORS headers.
C19_PreflightAndCors ==
    /\ req.method = "OPTIONS" =>
          /\ calls = <<>>
          /\ pc \in {"start", "done"}
          /\ Finished =>
               /\ Len(responses) = 1
               /\ responses[1].status = 200
               /\ ~responses[1].hasBody
               /\ responses[1].body.keys = {}
    /\ \A r \in Range(responses) :
          /\ r.status \in {200, 400, 500}
          /\ r.headers.allowOrigin = "*"
          /\ r.headers.allowMethods = "GET, POST, PUT, DELETE, OPTIONS"
          /\ r.headers.allowHeaders = "Content-Type, Authorization, X-Client-Info, Apikey"

\* an OPTIONS request has been answered
W19_PreflightAnswered ==
    /\ Finished
    /\ req.method = "OPTIONS"
    /\ Len(responses) = 1

CallOrder == <<"embed", "retrieve", "generate">>

\* C20: the outbound calls of an execution are a prefix of embed, retrieve,
\* generate; retrieve is called only after embed has returned, generate
\* only after retrieve has returned a non-empty result without error.
C20_CallsInOrderOnce ==
    /\ Len(calls) <= 3
    /\ \A k \in DOMAIN calls : calls[k].op = CallOrder[k]
    /\ Len(calls) >= 2 => calls[1].result = "returned"
    /\ Len(calls) >= 3 =>
          /\ calls[2].result = "returned"
          /\ searchError.null
          /\ ~chunks.null
          /\ chunks.rows # <<>>

\* all three calls were made and returned
W20_AllThreeCallsReturned ==
    /\ Finished
    /\ Len(calls) = 3
    /\ \A k \in DOMAIN calls : calls[k].result = "returned"

\* the four outcomes of a query
IsOutcome(r) ==
    \/ r.status = 400 /\ r.body.keys = {"error"}
    \/ r.status = 500 /\ r.body.keys = {"error", "details"}
    \/ /\ r.status = 200
       /\ Len(calls) = 2
       /\ r.body.citations = <<>>
       /\ r.body.retrieved_chunks = <<>>
       /\ "answer" \in r.body.keys
       /\ r.body.answer = FallbackAnswer
    \/ /\ r.status = 200
       /\ Len(calls) = 3
       /\ r.body.citations # <<>>
       /\ Len(r.body.retrieved_chunks) = Len(r.body.citations)

\* the outcome of a request: of a query one of the four, of a preflight the
\* 200 without a body
IsTerminal(r) ==
    IF req.method = "OPTIONS"
    THEN r.status = 200 /\ ~r.hasBody
    ELSE r.hasBody /\ IsOutcome(r)

\* C21: when every outbound call settles, every execution ends, having
\* returned exactly one response, which for a query is the 400, a 500, the
\* empty-result 200 or the grounded 200; no response is returned before the
\* end, no call is left pending at the end, and never a second response.
C21_ExactlyOneResponse ==
    /\ <>[](Finished /\ Len(responses) = 1 /\ IsTerminal(responses[1]))
    /\ [](Len(responses) <= 1)
    /\ [](Len(responses) = 1 <=> Finished)
    /\ [](Finished => \A i \in DOMAIN calls : calls[i].result # "pending")

\* a grounded answer has been returned
W21_GroundedAnswerReturned ==
    /\ Finished
    /\ Len(calls) = 3
    /\ Len(responses) = 1
    /\ responses[1].status = 200
    /\ "answer" \in responses[1].body.keys
    /\ responses[1].body.answer # ""
    /\ responses[1].body.citations # <<>>

\* status of a listed file
StatusOf(list, id) == (CHOOSE f \in Range(list) : f.id = id).status

Ended(status) == status \in {"completed", "error"}

\* the moves of a status the claim allows
StatusMove(from, to) ==
    \/ to = from
    \/ from = "uploading" /\ to \in {"processing", "error"}
    \/ from = "processing" /\ to \in {"completed", "error"}

\* the files of run s are handled one after another: those before the
\* current one are settled, the current one is where its awaited call
\* leaves it, those after it have not been touched
OneAfterAnother(s) ==
    LET run == selection[s] IN
    \A k \in 1..run.n :
        FileId(s, k) \in ListedIds(files) =>
            LET st == StatusOf(files, FileId(s, k)) IN
            /\ k < run.idx => Ended(st)
            /\ k > run.idx => st = "uploading"
            /\ k = run.idx =>
                   st = (IF run.step = "upload" THEN "uploading" ELSE "processing")

\* what holds of every state of the upload component
UploadInvariant ==
    /\ \A i, j \in DOMAIN files : files[i].id = files[j].id => i = j
    /\ \A f \in Range(files) :
          /\ f.status \in UploadStatuses
          /\ f.status \in {"processing", "completed"} =>
                 StoragePath(caller, f.id[1], f.id[2]) \in storage
          /\ f.status = "completed" => f.id \in DOMAIN documents
    /\ \A s \in DOMAIN selection :
          /\ OneAfterAnother(s)
          /\ completeCalls[s] = (IF selection[s].step = "finished" THEN 1 ELSE 0)
          /\ selection[s].step = "finished" =>
                 /\ selection[s].attempts = selection[s].n
                 /\ selection[s].idx = selection[s].n + 1
                 /\ \A f \in Range(files) : f.id[1] = s => Ended(f.status)

\* what holds of every step of the upload component
UploadStep ==
    /\ \A f \in Range(files) :
          f.id \in ListedIds(files') =>
              StatusMove(f.status, StatusOf(files', f.id))
    /\ \A s \in DOMAIN selection : \A k \in 1..selection[s].n :
          FileId(s, k) \notin ListedIds(files) =>
              FileId(s, k) \notin ListedIds(files')
    /\ \A s \in DOMAIN selection :
          /\ completeCalls'[s] >= completeCalls[s]
          /\ selection'[s].attempts \in
                 {selection[s].attempts, selection[s].attempts + 1}

\* C22: the files of a selection are handled one after another; a status
\* moves only uploading -> processing -> completed or from uploading or
\* processing to error; a processing file has its object stored and a
\* completed one its documents row; every file of the selection is tried
\* whatever happened to the ones before it; onUploadComplete is called once
\* per selection, when the loop is over and every listed file of the
\* selection is completed or in error; a removed file never returns to the
\* list.
C22_UploadLifecycle == [](UploadInvariant) /\ [][UploadStep]_vars

\* a selection of two files is over: the first failed, the second was
\* completed, and onUploadComplete was called once
W22_SecondFileCompletedAfterFailure ==
    \E s \in DOMAIN selection :
        /\ selection[s].step = "finished"
        /\ selection[s].n = 2
        /\ completeCalls[s] = 1
        /\ {FileId(s, 1), FileId(s, 2)} \subseteq ListedIds(files)
        /\ StatusOf(files, FileId(s, 1)) = "error"
        /\ StatusOf(files, FileId(s, 2)) = "completed"

====
